---- MODULE Spec2Model ----
(***************************************************************************)
(* The chat pipeline of src/main.py: detect_intent, fetch_weather,         *)
(* format_response and handle_non_weather_query, chained by chat.  One     *)
(* request is in flight at a time (requests share no mutable state); each  *)
(* action is one await-delimited step of the handler, and the two remote   *)
(* endpoints are the environment, which picks every answer.                *)
(***************************************************************************)
EXTENDS Integers, Sequences, FiniteSets, TLC

VARIABLES
    pc,            \* the step of chat the request in flight is at
    message,       \* request.message
    forecast_ok,   \* environment: the forecast endpoint answers this request's calls
    llm_out,       \* environment: what the language model does at the step just taken
    intent,        \* chat's intent
    location, latitude, longitude, parameters,    \* chat's locals
    api_params,    \* the "current" query of the forecast request sent
    weather_data,  \* chat's weather_data
    data_dict,     \* format_response's data_dict, in insertion order
    response,      \* what chat answered
    calls          \* the functions chat has awaited, with the request each sent

vars == <<pc, message, forecast_ok, llm_out, intent, location, latitude, longitude,
          parameters, api_params, weather_data, data_dict, response, calls>>

(***************************************************************************)
(* Bounds of the model.                                                    *)
(***************************************************************************)
\* longest run of extraneous tokens before and after the JSON of an answer
MaxPad == 2
\* longest "parameters" list of an intent
MaxParams == 2

(***************************************************************************)
(* Python / JSON values, tagged by type.                                   *)
(***************************************************************************)
PyNone == [t |-> "null"]
PyBool(b) == [t |-> "bool", v |-> b]
PyNum(n) == [t |-> "num", v |-> n]
PyStr(s) == [t |-> "str", v |-> s]
PyList(s) == [t |-> "list", v |-> s]
PyDict(f) == [t |-> "dict", v |-> f]
\* a local that has not been assigned
Unset == [t |-> "unset"]
EmptyDict == [k \in {} |-> PyNone]

\* Python truth value testing, as used by "not x"
Truthy(x) ==
    CASE x.t = "null" -> FALSE
      [] x.t = "bool" -> x.v
      [] x.t = "num" -> x.v # 0
      [] x.t = "str" -> x.v # ""
      [] x.t = "list" -> x.v # <<>>
      [] x.t = "dict" -> DOMAIN x.v # {}

\* dict.get(key, default) on the mapping of a dict
Get(d, key, default) == IF key \in DOMAIN d THEN d[key] ELSE default

(***************************************************************************)
(* PARAM_MAPPING and str.lower.                                            *)
(***************************************************************************)
PARAM_MAPPING ==
    [temperature |-> "temperature_2m",
     humidity |-> "relative_humidity_2m",
     precipitation |-> "precipitation",
     wind_speed |-> "wind_speed_10m",
     wind |-> "wind_speed_10m",
     weather |-> "weather_code",
     pressure |-> "pressure_msl",
     cloud_cover |-> "cloud_cover",
     clouds |-> "cloud_cover"]

\* str.lower on the parameter names of the model; every other name of the
\* model is already lower case
lower(s) ==
    CASE s = "Humidity" -> "humidity"
      [] s = "WIND" -> "wind"
      [] s = "Made_Up" -> "made_up"
      [] OTHER -> s

\* faulty variant of MapParam: the lower-cased name is what passes through
MapParamLowered(param) ==
    IF lower(param) \in DOMAIN PARAM_MAPPING
    THEN PARAM_MAPPING[lower(param)]
    ELSE lower(param)

\* PARAM_MAPPING.get(param.lower(), param)
MapParam(param) ==
    IF lower(param) \in DOMAIN PARAM_MAPPING
    THEN PARAM_MAPPING[lower(param)]
    ELSE param

(***************************************************************************)
(* Text of a language-model answer: a sequence of tokens.  A brace, a run  *)
(* of prose, a run of whitespace and a non-object JSON value are           *)
(* characters; the member list of a flat JSON object is one token that     *)
(* carries the mapping it denotes (it holds no brace).                     *)
(***************************************************************************)
LB == [t |-> "ch", v |-> "{"]
RB == [t |-> "ch", v |-> "}"]
WS == [t |-> "ch", v |-> " "]
PROSE == [t |-> "ch", v |-> "prose"]
SCALAR == [t |-> "ch", v |-> "42"]
Members(f) == [t |-> "members", v |-> f]

\* s[start:end] with 0-based start and exclusive end, 0 <= start, end <= len(s)
Slice(s, start, end) == IF end <= start THEN <<>> ELSE SubSeq(s, start + 1, end)

RECURSIVE LStrip(_)
LStrip(s) == IF s # <<>> /\ Head(s) = WS THEN LStrip(Tail(s)) ELSE s

RECURSIVE RStrip(_)
RStrip(s) ==
    IF s # <<>> /\ s[Len(s)] = WS THEN RStrip(SubSeq(s, 1, Len(s) - 1)) ELSE s

\* str.strip()
Strip(s) == LStrip(RStrip(s))

\* c in s
Contains(s, c) == \E i \in 1..Len(s) : s[i] = c

\* s.index(c), 0-based; the caller has checked c in s
Index(s, c) == (CHOOSE i \in 1..Len(s) : s[i] = c /\ \A j \in 1..(i - 1) : s[j] # c) - 1

\* s.rindex(c), 0-based; raises ValueError when c is not in s
RIndex(s, c) ==
    IF Contains(s, c)
    THEN [raised |-> FALSE,
          v |-> (CHOOSE i \in 1..Len(s) :
                    s[i] = c /\ \A j \in (i + 1)..Len(s) : s[j] # c) - 1]
    ELSE [raised |-> TRUE, v |-> 0]

\* json.loads ignores whitespace between tokens
NoWs(s) == SelectSeq(s, LAMBDA c : c # WS)

\* json.loads(s): the value, or raised (JSONDecodeError)
JsonLoads(s) ==
    LET u == NoWs(s) IN
    IF u = <<SCALAR>> THEN [raised |-> FALSE, v |-> PyNum(42)]
    ELSE IF u = <<LB, RB>> THEN [raised |-> FALSE, v |-> PyDict(EmptyDict)]
    ELSE IF Len(u) = 3 /\ u[1] = LB /\ u[2].t = "members" /\ u[3] = RB
         THEN [raised |-> FALSE, v |-> PyDict(u[2].v)]
    ELSE [raised |-> TRUE, v |-> PyNone]

(***************************************************************************)
(* Response texts: a sequence of pieces, a literal of the source or a      *)
(* value interpolated by an f-string or produced by the language model.    *)
(***************************************************************************)
Lit(s) == [t |-> "lit", v |-> s]
Fmt(x) == [t |-> "fmt", v |-> x]
LlmText(s) == [t |-> "llm", v |-> s]

ClarificationText ==
    <<Lit("I couldn't determine the location coordinates. Could you please be more specific about the location?")>>

FetchApologyText(loc) ==
    <<Lit("I'm sorry, I couldn't fetch the weather data for "), Fmt(loc),
      Lit(" at the moment. Please try again later.")>>

FallbackText(loc, data) == <<Lit("Weather data for "), Fmt(loc), Lit(": "), Fmt(data)>>

GeneralApologyText ==
    <<Lit("I'm sorry, I couldn't process your request at the moment. Please try again.")>>

ChatResponse(text) == [status |-> 200, response |-> text]

HTTPException500 ==
    [status |-> 500,
     detail |-> <<Lit("An error occurred while processing your request. Please try again.")>>]

NoResponse == [status |-> 0]

(***************************************************************************)
(* The environment: what the language-model endpoint does with a request  *)
(* ("error": network error, timeout or non-success status; "no_content":   *)
(* a success whose body lacks choices[0].message.content; "text": a        *)
(* completion), and what the forecast endpoint does.                       *)
(***************************************************************************)
NoOutcome == [kind |-> "none", content |-> <<>>]
LlmError == [kind |-> "error", content |-> <<>>]
LlmNoContent == [kind |-> "no_content", content |-> <<>>]
LlmAnswer(s) == [kind |-> "text", content |-> s]

Messages == {"What's the temperature in Paris?", "Tell me a joke"}

Absent == [t |-> "absent"]
Field(k, x) == IF x = Absent THEN EmptyDict ELSE k :> x
MkIntent(w, loc, lat, lon, ps) ==
    Field("is_weather_query", w) @@ Field("location", loc) @@ Field("latitude", lat)
        @@ Field("longitude", lon) @@ Field("parameters", ps)

ParamNames ==
    DOMAIN PARAM_MAPPING
        \cup {"Humidity", "WIND", "Made_Up", "made_up_param", "temperature_2m"}
ParamLists == UNION {[1..n -> ParamNames] : n \in 0..MaxParams}

\* intents that vary the classification, the location and the coordinates
CoordIntents ==
    {MkIntent(w, loc, lat, lon, ps) :
        w \in {Absent, PyBool(FALSE), PyBool(TRUE)},
        loc \in {Absent, PyStr("Paris")},
        lat \in {Absent, PyNum(0), PyNum(48)},
        lon \in {Absent, PyNum(0), PyNum(2)},
        ps \in {Absent, PyList(<<"humidity">>)}}
\* weather intents that vary the requested parameters
ParamIntents ==
    {MkIntent(PyBool(TRUE), PyStr("Paris"), PyNum(48), PyNum(2), ps) :
        ps \in {PyNone} \cup {PyList(l) : l \in ParamLists}}
Intents == CoordIntents \cup ParamIntents

NonWeatherObject == MkIntent(PyBool(FALSE), Absent, Absent, Absent, Absent)
ParisObject ==
    MkIntent(PyBool(TRUE), PyStr("Paris"), PyNum(48), PyNum(2), PyList(<<"temperature">>))

Pads == UNION {[1..n -> {PROSE, WS, LB, RB}] : n \in 0..MaxPad}
Cores ==
    {<<>>, <<SCALAR>>, <<LB, RB>>, <<LB, Members(NonWeatherObject), RB>>,
     <<LB, Members(ParisObject), RB>>}

\* the texts the model may answer to the intent prompt
IntentAnswers ==
    {<<LB, Members(i), RB>> : i \in Intents}
        \cup {pre \o core \o post : pre \in Pads, core \in Cores, post \in Pads}

\* the texts the model may answer to the other two prompts
Replies == {<<PROSE>>, <<WS, PROSE, WS>>}

IntentOutcomes == {LlmError, LlmNoContent} \cup {LlmAnswer(s) : s \in IntentAnswers}
ReplyOutcomes == {LlmError, LlmNoContent} \cup {LlmAnswer(s) : s \in Replies}

\* bodies of a successful forecast response
Payloads ==
    {EmptyDict,
     [current |-> [temperature_2m |-> 15], current_units |-> [temperature_2m |-> "C"]],
     [current |-> [temperature_2m |-> 15, relative_humidity_2m |-> 60, wind_speed_10m |-> 7],
      current_units |-> [temperature_2m |-> "C", relative_humidity_2m |-> "%",
                         wind_speed_10m |-> "km/h"]]}

(***************************************************************************)
(* The functions of src/main.py.                                           *)
(***************************************************************************)
\* call_llm(messages, **kwargs) against an endpoint that behaves as out: the
\* function declares the one parameter messages, so any keyword argument is
\* a TypeError raised before a request is sent
call_llm(kwargs, out) ==
    IF kwargs # {} THEN [raised |-> TRUE, sent |-> FALSE, ok |-> FALSE, body |-> NoOutcome]
    ELSE IF out.kind = "error"
         THEN [raised |-> TRUE, sent |-> TRUE, ok |-> FALSE, body |-> NoOutcome]
    ELSE [raised |-> FALSE, sent |-> TRUE, ok |-> TRUE, body |-> out]

\* llm_response["choices"][0]["message"]["content"].strip()
ContentOf(body) ==
    IF body.kind = "text" THEN [raised |-> FALSE, v |-> Strip(body.content)]
    ELSE [raised |-> TRUE, v |-> <<>>]

FailOpenIntent == PyDict([is_weather_query |-> PyBool(FALSE)])

\* the substring from the first "{" to the last "}"
ExtractJson(content) ==
    IF Contains(content, LB)
    THEN LET start == Index(content, LB)
             r == RIndex(content, RB)
         IN IF r.raised THEN [raised |-> TRUE, v |-> <<>>]
            ELSE [raised |-> FALSE, v |-> Slice(content, start, r.v + 1)]
    ELSE [raised |-> FALSE, v |-> content]

\* the call_llm calls of the three callers (lines 97, 176 and 192)
detect_intent_call(out) == call_llm({}, out)
format_response_call(out) == call_llm({}, out)
handle_non_weather_query_call(out) == call_llm({"temperature"}, out)

\* detect_intent against an endpoint that behaves as out
detect_intent(out) ==
    LET r == detect_intent_call(out)
        c == ContentOf(r.body)
        e == ExtractJson(c.v)
        j == JsonLoads(e.v)
    IN IF r.raised \/ c.raised \/ e.raised \/ j.raised THEN FailOpenIntent ELSE j.v

\* the api_params loop of fetch_weather
ApiParams(ps) == [i \in 1..Len(ps) |-> MapParam(ps[i])]

\* data_dict[mapped_param] = value on an insertion-ordered dict
DictSet(d, k, x) ==
    IF \E i \in 1..Len(d) : d[i][1] = k
    THEN [i \in 1..Len(d) |-> IF d[i][1] = k THEN <<k, x>> ELSE d[i]]
    ELSE Append(d, <<k, x>>)

\* faulty variant of DataDictFrom: the payload is filtered by the unmapped names
RECURSIVE DataDictFromUnmapped(_, _, _, _)
DataDictFromUnmapped(ps, current, i, d) ==
    IF i > Len(ps) THEN d
    ELSE DataDictFromUnmapped(ps, current, i + 1,
             IF ps[i] \in DOMAIN current THEN DictSet(d, ps[i], current[ps[i]]) ELSE d)

\* the data_dict loop of format_response, from parameter i on
RECURSIVE DataDictFrom(_, _, _, _)
DataDictFrom(ps, current, i, d) ==
    IF i > Len(ps) THEN d
    ELSE LET mapped_param == MapParam(ps[i])
         IN DataDictFrom(ps, current, i + 1,
                IF mapped_param \in DOMAIN current
                THEN DictSet(d, mapped_param, current[mapped_param])
                ELSE d)

DataDict(ps, weather) == DataDictFrom(ps, Get(weather, "current", EmptyDict), 1, <<>>)

\* format_response against an endpoint that behaves as out
format_response(loc, weather, ps, out) ==
    LET r == format_response_call(out)
        c == ContentOf(r.body)
    IN IF r.raised \/ c.raised THEN FallbackText(loc, DataDict(ps, weather))
       ELSE <<LlmText(c.v)>>

\* handle_non_weather_query against an endpoint that behaves as out
handle_non_weather_query(out) ==
    LET r == handle_non_weather_query_call(out)
        c == ContentOf(r.body)
    IN IF r.raised \/ c.raised THEN GeneralApologyText ELSE <<LlmText(c.v)>>

\* one awaited function: its arguments, the endpoint its request went to
\* ("none": it raised before sending one) and whether the endpoint answered
Call(fn, args, endpoint, ok) == [fn |-> fn, args |-> args, endpoint |-> endpoint, ok |-> ok]

\* faulty variant of IsWeatherQuery: a missing is_weather_query counts as true
IsWeatherQueryDefaultTrue(i) == Truthy(Get(i, "is_weather_query", PyBool(TRUE)))

\* intent.get("is_weather_query", False)
IsWeatherQuery(i) == Truthy(Get(i, "is_weather_query", PyBool(FALSE)))

\* faulty variant of CoordsMissing: only both coordinates missing stop the request
CoordsMissingBoth(lat, lon) == ~Truthy(lat) /\ ~Truthy(lon)

\* not latitude or not longitude
CoordsMissing(lat, lon) == ~Truthy(lat) \/ ~Truthy(lon)

\* faulty variant of ParametersOf: the default is the empty list
ParametersOfDefaultEmpty(i) == Get(i, "parameters", PyList(<<>>))

\* intent.get("parameters", ["temperature"])
ParametersOf(i) == Get(i, "parameters", PyList(<<"temperature">>))

\* faulty variant of AfterFetch: a failed fetch is tried again
AfterFetchRetry(ok) == IF ok THEN "format_response" ELSE "fetch_weather"

\* where chat goes after fetch_weather returned (ok) or raised
AfterFetch(ok) == IF ok THEN "format_response" ELSE "done"

WeatherOutcomes ==
    {[ok |-> FALSE, body |-> EmptyDict]} \cup {[ok |-> TRUE, body |-> p] : p \in Payloads}

(***************************************************************************)
(* The state machine of one request after another.                         *)
(***************************************************************************)
Init ==
    /\ pc = "idle"
    /\ message = ""
    /\ forecast_ok = TRUE
    /\ llm_out = NoOutcome
    /\ intent = Unset
    /\ location = Unset
    /\ latitude = Unset
    /\ longitude = Unset
    /\ parameters = Unset
    /\ api_params = <<>>
    /\ weather_data = Unset
    /\ data_dict = <<>>
    /\ response = NoResponse
    /\ calls = <<>>

\* POST /chat arrives: a fresh activation of chat
Chat(msg) ==
    /\ pc \in {"idle", "done"}
    /\ pc' = "detect_intent"
    /\ message' = msg
    /\ forecast_ok' \in BOOLEAN
    /\ llm_out' = NoOutcome
    /\ intent' = Unset
    /\ location' = Unset
    /\ latitude' = Unset
    /\ longitude' = Unset
    /\ parameters' = Unset
    /\ api_params' = <<>>
    /\ weather_data' = Unset
    /\ data_dict' = <<>>
    /\ response' = NoResponse
    /\ calls' = <<>>

\* intent = await detect_intent(request.message)
DetectIntent ==
    /\ pc = "detect_intent"
    /\ \E out \in IntentOutcomes :
        /\ llm_out' = out
        /\ intent' = detect_intent(out)
        /\ calls' = Append(calls, Call("detect_intent", <<message>>, "llm",
                                      detect_intent_call(out).ok))
    /\ pc' = "route"
    /\ UNCHANGED <<message, forecast_ok, location, latitude, longitude, parameters,
                   api_params, weather_data, data_dict, response>>

\* chat from the return of detect_intent to its next await or return
Route ==
    /\ pc = "route"
    /\ llm_out' = NoOutcome
    /\ IF intent.t # "dict"
       THEN \* intent.get raises AttributeError: the outer except
            /\ response' = HTTPException500
            /\ pc' = "done"
            /\ UNCHANGED <<location, latitude, longitude, parameters>>
       ELSE IF ~IsWeatherQuery(intent.v)
       THEN /\ pc' = "handle_non_weather_query"
            /\ UNCHANGED <<location, latitude, longitude, parameters, response>>
       ELSE /\ location' = Get(intent.v, "location", PyStr("Unknown"))
            /\ latitude' = Get(intent.v, "latitude", PyNone)
            /\ longitude' = Get(intent.v, "longitude", PyNone)
            /\ parameters' = ParametersOf(intent.v)
            /\ IF CoordsMissing(latitude', longitude')
               THEN /\ response' = ChatResponse(ClarificationText)
                    /\ pc' = "done"
               ELSE /\ pc' = "fetch_weather"
                    /\ UNCHANGED response
    /\ UNCHANGED <<message, forecast_ok, intent, api_params, weather_data, data_dict,
                   calls>>

\* response_text = await handle_non_weather_query(request.message)
HandleNonWeatherQuery ==
    /\ pc = "handle_non_weather_query"
    /\ \E out \in ReplyOutcomes :
        LET r == handle_non_weather_query_call(out) IN
        /\ llm_out' = out
        /\ response' = ChatResponse(handle_non_weather_query(out))
        /\ calls' = Append(calls, Call("handle_non_weather_query", <<message>>,
                                      IF r.sent THEN "llm" ELSE "none", r.ok))
    /\ pc' = "done"
    /\ UNCHANGED <<message, forecast_ok, intent, location, latitude, longitude, parameters,
                   api_params, weather_data, data_dict>>

\* weather_data = await fetch_weather(latitude, longitude, parameters)
FetchWeather ==
    /\ pc = "fetch_weather"
    /\ IF parameters.t # "list"
       THEN \* the for loop raises TypeError before a request is sent
            /\ calls' = Append(calls, Call("fetch_weather",
                                          <<latitude, longitude, parameters>>,
                                          "none", FALSE))
            /\ response' = ChatResponse(FetchApologyText(location))
            /\ pc' = "done"
            /\ UNCHANGED <<api_params, weather_data>>
       ELSE \E w \in {o \in WeatherOutcomes : o.ok = forecast_ok} :
            /\ api_params' = ApiParams(parameters.v)
            /\ calls' = Append(calls, Call("fetch_weather",
                                          <<latitude, longitude, parameters>>,
                                          "weather", w.ok))
            /\ pc' = AfterFetch(w.ok)
            /\ IF w.ok
               THEN /\ weather_data' = PyDict(w.body)
                    /\ UNCHANGED response
               ELSE /\ response' = ChatResponse(FetchApologyText(location))
                    /\ UNCHANGED weather_data
    /\ UNCHANGED <<message, forecast_ok, llm_out, intent, location, latitude, longitude,
                   parameters, data_dict>>

\* response_text = await format_response(location, weather_data, parameters)
FormatResponse ==
    /\ pc = "format_response"
    /\ \E out \in ReplyOutcomes :
        LET r == format_response_call(out) IN
        /\ llm_out' = out
        /\ data_dict' = DataDict(parameters.v, weather_data.v)
        /\ response' = ChatResponse(format_response(location, weather_data.v,
                                                    parameters.v, out))
        /\ calls' = Append(calls, Call("format_response",
                                      <<location, weather_data, parameters>>,
                                      "llm", r.ok))
    /\ pc' = "done"
    /\ UNCHANGED <<message, forecast_ok, intent, location, latitude, longitude, parameters,
                   api_params, weather_data>>

Next ==
    \/ \E msg \in Messages : Chat(msg)
    \/ DetectIntent
    \/ Route
    \/ HandleNonWeatherQuery
    \/ FetchWeather
    \/ FormatResponse

Spec == Init /\ [][Next]_vars

(***************************************************************************)
(* The claims.                                                             *)
(***************************************************************************)
\* the functions awaited so far that sent a request to an endpoint
Outbound == SelectSeq(calls, LAMBDA c : c.endpoint # "none")
Invoked(fn) == \E i \in 1..Len(calls) : calls[i].fn = fn
\* the request in flight has its intent, and it is a JSON object
HasIntent == pc \notin {"idle", "detect_intent"} /\ intent.t = "dict"
\* is_weather_query absent or false
NonWeatherIntent ==
    /\ HasIntent
    /\ ("is_weather_query" \in DOMAIN intent.v => intent.v["is_weather_query"] = PyBool(FALSE))
WeatherIntent ==
    /\ HasIntent
    /\ "is_weather_query" \in DOMAIN intent.v
    /\ intent.v["is_weather_query"] = PyBool(TRUE)
HasNumber(key) == key \in DOMAIN intent.v /\ intent.v[key].t = "num"

\* C1: a request whose intent is not a weather query (is_weather_query absent
\* or false) never invokes fetch_weather, and it is answered with status 200
\* and the text handle_non_weather_query returned for the message.
C1_NonWeatherGoesToGeneral ==
    NonWeatherIntent =>
        /\ ~Invoked("fetch_weather")
        /\ ~Invoked("format_response")
        /\ pc \in {"route", "handle_non_weather_query", "done"}
        /\ pc = "done" =>
            /\ calls[Len(calls)] =
                   Call("handle_non_weather_query", <<message>>,
                        calls[Len(calls)].endpoint, calls[Len(calls)].ok)
            /\ response = ChatResponse(handle_non_weather_query(llm_out))

C1_Witness ==
    /\ NonWeatherIntent
    /\ "is_weather_query" \notin DOMAIN intent.v
    /\ "latitude" \in DOMAIN intent.v
    /\ pc = "done"
    /\ response.status = 200
    /\ Invoked("handle_non_weather_query")

\* C2: a request whose intent is a weather query without latitude or without
\* longitude is answered with exactly the clarification sentence, and
\* fetch_weather is never invoked during it.
C2_MissingCoordinatesClarify ==
    (WeatherIntent /\ ("latitude" \notin DOMAIN intent.v \/ "longitude" \notin DOMAIN intent.v)) =>
        /\ ~Invoked("fetch_weather")
        /\ pc \in {"route", "done"}
        /\ pc = "done" => response = ChatResponse(ClarificationText)

C2_Witness ==
    /\ WeatherIntent
    /\ "latitude" \in DOMAIN intent.v
    /\ "longitude" \notin DOMAIN intent.v
    /\ pc = "done"
    /\ response = ChatResponse(ClarificationText)

\* C3: a request whose intent is a weather query with latitude and longitude
\* both present as numbers (zero included), made while the forecast endpoint
\* fails, is answered with the apology sentence naming the intent's location.
C3_ForecastFailureApologises ==
    (WeatherIntent /\ HasNumber("latitude") /\ HasNumber("longitude")
        /\ ~forecast_ok /\ pc = "done") =>
        response = ChatResponse(FetchApologyText(Get(intent.v, "location", PyStr("Unknown"))))

\* C4: when the language-model call of detect_intent fails, or the text it
\* returns does not parse into a JSON object, detect_intent returns exactly
\* {is_weather_query: false}.
C4_DetectIntentFailsOpen ==
    (pc = "route" /\
     \/ llm_out.kind \in {"error", "no_content"}
     \/ LET e == ExtractJson(Strip(llm_out.content))
            j == JsonLoads(e.v)
        IN e.raised \/ j.raised \/ j.v.t # "dict") =>
        intent = FailOpenIntent

\* C5: handle_non_weather_query returns the model's text whenever the
\* language-model endpoint answers with a completion.
C5_GeneralReturnsModelText ==
    (pc = "done" /\ Invoked("handle_non_weather_query") /\ llm_out.kind = "text") =>
        response = ChatResponse(<<LlmText(Strip(llm_out.content))>>)

\* C6: for a weather intent that carries no parameters, the parameter list
\* chat passes to fetch_weather and to format_response is exactly
\* ["temperature"].
C6_DefaultParameters ==
    (WeatherIntent /\ "parameters" \notin DOMAIN intent.v) =>
        \A i \in 1..Len(calls) :
            calls[i].fn \in {"fetch_weather", "format_response"} =>
                calls[i].args[3] = PyList(<<"temperature">>)

C6_Witness ==
    /\ WeatherIntent
    /\ "parameters" \notin DOMAIN intent.v
    /\ Invoked("fetch_weather")
    /\ Invoked("format_response")
    /\ api_params = <<"temperature_2m">>

\* fetch_weather has sent its request for the request in flight
FetchSent ==
    \E i \in 1..Len(calls) : calls[i].fn = "fetch_weather" /\ calls[i].endpoint = "weather"

\* C7 as stated: in the provider codes fetch_weather sends, every key of
\* PARAM_MAPPING is replaced by its code, every name that is not a key of
\* PARAM_MAPPING is sent unchanged, and mapping a sent code again changes
\* nothing.
C7_MappingPassesNonKeys ==
    FetchSent =>
        /\ Len(api_params) = Len(parameters.v)
        /\ \A i \in 1..Len(api_params) :
            LET p == parameters.v[i]
                m == api_params[i]
            IN /\ p \in DOMAIN PARAM_MAPPING => m = PARAM_MAPPING[p]
               /\ p \notin DOMAIN PARAM_MAPPING => m = p
               /\ MapParam(m) = m

\* C7 as amended: every key of PARAM_MAPPING is replaced by its code, every
\* name whose lower-case form is a key by that key's code, every name whose
\* lower-case form is not a key is sent unchanged, and mapping a sent code
\* again changes nothing.
C7_MappingTotalIdempotent ==
    FetchSent =>
        /\ Len(api_params) = Len(parameters.v)
        /\ \A i \in 1..Len(api_params) :
            LET p == parameters.v[i]
                m == api_params[i]
            IN /\ p \in DOMAIN PARAM_MAPPING => m = PARAM_MAPPING[p]
               /\ lower(p) \in DOMAIN PARAM_MAPPING => m = PARAM_MAPPING[lower(p)]
               /\ lower(p) \notin DOMAIN PARAM_MAPPING => m = p
               /\ MapParam(m) = m

C7_Witness ==
    /\ FetchSent
    /\ parameters.v = <<"clouds", "Made_Up">>
    /\ api_params = <<"cloud_cover", "Made_Up">>

DataKeys == {data_dict[i][1] : i \in 1..Len(data_dict)}

\* C8: when fetch_weather succeeded and the language-model call of
\* format_response fails, chat answers with status 200 and the text built
\* from the location and data_dict, and data_dict holds, once each and with
\* the payload's values, exactly the mapped requested parameters that are
\* keys of the payload's "current" mapping.
C8_FormatFallback ==
    (pc = "done" /\ Invoked("format_response") /\ llm_out.kind \in {"error", "no_content"}) =>
        LET current == Get(weather_data.v, "current", EmptyDict)
            requested == {MapParam(parameters.v[i]) : i \in 1..Len(parameters.v)}
        IN /\ response = ChatResponse(FallbackText(location, data_dict))
           /\ DataKeys = requested \cap DOMAIN current
           /\ \A i \in 1..Len(data_dict) : data_dict[i][2] = current[data_dict[i][1]]
           /\ \A i, j \in 1..Len(data_dict) : data_dict[i][1] = data_dict[j][1] => i = j

C8_Witness ==
    /\ pc = "done"
    /\ Invoked("format_response")
    /\ llm_out.kind = "error"
    /\ parameters.v = <<"Humidity", "pressure">>
    /\ data_dict = <<(<<"relative_humidity_2m", 60>>)>>
    /\ response = ChatResponse(FallbackText(PyStr("Paris"), data_dict))

\* C9: within one request at most three functions send a request, none of
\* them twice, in the order intent detection, weather fetch, response
\* formatting; the forecast request is sent only after detect_intent has
\* returned, and format_response is called only after a fetch that succeeded.
C9_SequentialCalls ==
    /\ Len(Outbound) <= 3
    /\ \A i, j \in 1..Len(calls) : calls[i].fn = calls[j].fn => i = j
    /\ \A i \in 1..Len(calls) :
        /\ calls[i].fn = "detect_intent" => i = 1
        /\ calls[i].fn = "fetch_weather" =>
            /\ i = 2
            /\ calls[1].fn = "detect_intent"
            /\ intent # Unset
        /\ calls[i].fn = "format_response" =>
            /\ i = 3
            /\ calls[2] = Call("fetch_weather", calls[2].args, "weather", TRUE)
    /\ pc = "format_response" =>
        /\ Len(calls) = 2
        /\ calls[2] = Call("fetch_weather", calls[2].args, "weather", TRUE)

C9_Witness ==
    /\ pc = "done"
    /\ Len(Outbound) = 3
    /\ Outbound[1].fn = "detect_intent"
    /\ Outbound[2].fn = "fetch_weather"
    /\ Outbound[3].fn = "format_response"

\* C10: when the model's answer is a JSON object between two runs of prose,
\* the one before it free of braces, detect_intent returns that object.
C10_FirstObjectExtracted ==
    (pc = "route" /\ llm_out.kind = "text") =>
        \A i \in 1..Len(llm_out.content) :
            LET c == llm_out.content IN
            (/\ i + 2 <= Len(c)
             /\ c[i] = LB /\ c[i + 1].t = "members" /\ c[i + 2] = RB
             /\ \A j \in 1..(i - 1) : c[j] \notin {LB, RB}) =>
                intent = PyDict(c[i + 1].v)

====
